---- MODULE Spec2Model ----
(***************************************************************************)
(* Model of the generator connector's Source (src/source.go, the revision  *)
(* at lines 26-154): Read with its record ceiling, the sleep/generate      *)
(* burst cycle, the read-time sleep and cancellation through ctx.          *)
(*                                                                         *)
(* Time is an integer clock.  The source is constructed at ConstructTime.  *)
(* The clock advances only between pulls and while a pull is blocked; a    *)
(* timer created by time.After(d) fires when the clock reaches now + d.    *)
(*                                                                         *)
(* Further parts stand beside the Source, each with its own                *)
(* specification: the record generators of package internal with Combine   *)
(* (GenSpec), Config.RateLimit beside Read's read-time step (LimSpec),     *)
(* the construction of a generator from a validated format (BuildSpec),    *)
(* a connector that is started again (RestartSpec) and Config.Validate     *)
(* (CfgSpec).                                                              *)
(***************************************************************************)
EXTENDS Integers, Naturals, Sequences, FiniteSets, TLC

\* ---- bounds of the model ----
MaxTime == 6
MaxPulls == 3
MaxSleep == 2
MaxGen == 2
MaxRead == 1
MaxCount == 2
MaxGens == 12
MaxCalls == 12
MaxPicked == 2
MaxInterval == 3
MaxClock == 5
MaxWaits == 3
MaxFields == 2
MaxRestarts == 1
MaxDuration == 1
MaxEdge == 2

\* ---- program constants ----
\* time.Time{} : the zero value of Source.generateUntil, long before any clock reading
ZeroTime == -1
\* the clock reading at which the Source is constructed
ConstructTime == 0

VARIABLES
    config,         \* Source.config : RecordCount, ReadTime, SleepTime, GenerateTime
    created,        \* Source.created
    generateUntil,  \* Source.generateUntil
    generated,      \* number of calls of recordGenerator.generate()
    readAt,         \* metadata read-at timestamp of the last generated record
    now,            \* time.Now()
    pc,             \* position of the running Read call ("idle": no call running)
    ctxDone,        \* ctx.Done() of the running call's context is closed
    deadline,       \* the instant the pending time.After timer fires
    start,          \* the instant the running (or last) Read was called
    burstStart,     \* the instant the running (or last) Read evaluated shouldSleep
    slept,          \* the running (or last) Read entered the burst sleep
    ret,            \* what the last finished Read returned
    doneAt,         \* the instant the last finished Read returned
    returned,       \* number of Read calls that returned a record
    pulls,          \* number of Read calls made
    generators,     \* the generators given to Combine: index -> operations, count
    rec,            \* the record returned by the last Next() of Combine's result
    subRec,         \* the record the sub-generator returned in that call
    emitted,        \* <<sub-generator index, position>> of every record returned
    calls,          \* number of Next() calls on Combine's result
    limiters,       \* per configuration: Config, RateLimit(), its running and past pulls
    limNow,         \* the clock of those pulls
    format,         \* the FormatConfig of the collection a generator is built for
    file,           \* the content of the file at format's path ("absent": no file)
    generator,      \* the generator built for format: state and cached file bytes
    reads,          \* number of os.ReadFile calls made
    data,           \* what the last generateData() of the generator gave
    dataAt,         \* the content of the file when that generateData() ran
    valid,          \* the result of FormatConfig.Validate on format
    openedWith,     \* the position given to the last Open: records acknowledged before
    restarts,       \* number of times the connector was started again
    conf,            \* the Config given to Validate
    confResult       \* whether Validate has run on conf, and the errors it joined

sourceVars == <<config, created, generateUntil, generated, readAt, now, pc, ctxDone,
                deadline, start, burstStart, slept, ret, doneAt, returned, pulls>>

genVars == <<generators, rec, subRec, emitted, calls>>

limVars == <<limiters, limNow>>

buildVars == <<format, file, generator, reads, data, dataAt, valid>>

openVars == <<openedWith, restarts>>

confVars == <<conf, confResult>>

nonSourceVars == <<genVars, limVars, buildVars, openVars, confVars>>

nonGenVars == <<sourceVars, limVars, buildVars, openVars, confVars>>

nonLimVars == <<sourceVars, genVars, buildVars, openVars, confVars>>

nonBuildVars == <<sourceVars, genVars, limVars, openVars, confVars>>

nonConfVars == <<sourceVars, genVars, limVars, buildVars, openVars>>

vars == <<sourceVars, genVars, limVars, buildVars, openVars, confVars>>

\* Values Parse accepts: recordCount any integer (default -1), readTime and
\* sleepTime non-negative, generateTime positive.
Configs ==
    [RecordCount : -1..MaxCount,
     ReadTime : 0..MaxRead,
     SleepTime : 0..MaxSleep,
     GenerateTime : 1..MaxGen]

PCs == {"idle", "burst_check", "burst_sleep", "rate_check", "read_sleep",
        "generate", "quota_block"}

Blocked == {"burst_sleep", "read_sleep", "quota_block"}

\* no record returned yet
NoRecord ==
    [position |-> <<>>, operation |-> "none", collection |-> <<>>, key |-> "",
     before |-> 0, after |-> 0]

\* the record generator of package internal, not yet built
NoGenerator ==
    /\ generators = <<>>
    /\ rec = NoRecord
    /\ subRec = NoRecord
    /\ emitted = {}
    /\ calls = 0

\* the Source right after NewSource
NewSource ==
    /\ created = 0
    /\ generateUntil = ZeroTime
    /\ generated = 0
    /\ readAt = ZeroTime
    /\ now = ConstructTime
    /\ pc = "idle"
    /\ ctxDone = FALSE
    /\ deadline = ZeroTime
    /\ start = ZeroTime
    /\ burstStart = ZeroTime
    /\ slept = FALSE
    /\ ret = "none"
    /\ doneAt = ZeroTime
    /\ returned = 0
    /\ pulls = 0

\* no configuration under comparison
NoLimiter ==
    /\ limiters = <<>>
    /\ limNow = ConstructTime

\* a collection that is not configured: no format type
NoFormat == [Type |-> "", Options |-> <<>>, Path |-> ""]

\* no data generated
NoData == [kind |-> "none", bytes |-> "nil", json |-> <<>>, fields |-> <<>>]

\* no generator constructed
NotBuilt == [state |-> "none", bytes |-> "nil"]

\* no collection configured, nothing built from it
NoBuild ==
    /\ format = NoFormat
    /\ file = "absent"
    /\ generator = NotBuilt
    /\ reads = 0
    /\ data = NoData
    /\ dataAt = "absent"
    /\ valid = [checked |-> FALSE, errs |-> {}]

\* the first start: Open is given no position
FirstOpen ==
    /\ openedWith = 0
    /\ restarts = 0

\* no Config under validation
NoConfig ==
    /\ conf = [ReadTime |-> 0, Rate |-> <<0, 1>>, SleepTime |-> 0, GenerateTime |-> 1,
              Operations |-> <<"create">>, Format |-> NoFormat, Collections |-> <<>>]
    /\ confResult = [checked |-> FALSE, errs |-> {}]

Init ==
    /\ config \in Configs
    /\ NewSource
    /\ NoGenerator
    /\ NoLimiter
    /\ NoBuild
    /\ FirstOpen
    /\ NoConfig

\* the quota check with an off-by-one comparison
QuotaReachedOff(c, cfg) == c > cfg.RecordCount /\ cfg.RecordCount >= 0

\* s.created >= s.config.RecordCount && s.config.RecordCount >= 0
QuotaReached(c, cfg) == c >= cfg.RecordCount /\ cfg.RecordCount >= 0

\* shouldSleep without the SleepTime == 0 early return
ShouldSleepNoGuard(cfg, t, until) == t > until

\* shouldSleep that never looks at generateUntil
ShouldSleepAlways(cfg, t, until) == cfg.SleepTime # 0

\* a burst check that takes the zero window end for "no window yet" and lets
\* the first pulls through
ShouldSleepNotFirst(cfg, t, until) ==
    cfg.SleepTime # 0 /\ until # ZeroTime /\ t > until

\* Source.shouldSleep: time.Now().After(s.generateUntil) unless SleepTime == 0
shouldSleep(cfg, t, until) ==
    IF cfg.SleepTime = 0 THEN FALSE ELSE t > until

\* a sleep that enters the blocking select for a zero duration too
SleepBlocksAlways(d) == d >= 0

\* Source.sleep: if duration > 0, block in the select on ctx.Done() and the timer
sleepBlocks(d) == d > 0

\* a timer that fires one tick late
SleepDeadlineLong(t, d) == t + d + 1

\* time.After(duration): the instant the timer created at t fires
SleepDeadline(t, d) == t + d

\* Read without the ctx.Err() check at its top
ReadEnterNoCtxCheck(c) ==
    /\ pc = "idle"
    /\ pulls < MaxPulls
    /\ now + config.SleepTime + config.ReadTime <= MaxTime
    /\ pulls' = pulls + 1
    /\ start' = now
    /\ ctxDone' = c
    /\ slept' = FALSE
    /\ ret' = "none"
    /\ IF QuotaReached(created, config)
       THEN /\ pc' = "quota_block"
            /\ UNCHANGED created
       ELSE /\ created' = created + 1
            /\ pc' = "burst_check"
    /\ UNCHANGED <<nonSourceVars, config, generateUntil, generated, readAt, now, deadline,
                   burstStart, returned, doneAt>>

\* Read, from the call to the end of the quota check (source.go:86-97)
ReadEnter(c) ==
    /\ pc = "idle"
    /\ pulls < MaxPulls
    /\ now + config.SleepTime + config.ReadTime <= MaxTime
    /\ pulls' = pulls + 1
    /\ start' = now
    /\ ctxDone' = c
    /\ slept' = FALSE
    /\ IF c
       THEN /\ pc' = "idle"
            /\ ret' = "canceled"
            /\ doneAt' = now
            /\ UNCHANGED created
       ELSE IF QuotaReached(created, config)
       THEN /\ pc' = "quota_block"
            /\ ret' = "none"
            /\ UNCHANGED <<created, doneAt>>
       ELSE /\ created' = created + 1
            /\ pc' = "burst_check"
            /\ ret' = "none"
            /\ UNCHANGED doneAt
    /\ UNCHANGED <<nonSourceVars, config, generateUntil, generated, readAt, now, deadline,
                   burstStart, returned>>

\* <-ctx.Done() of the quota block (source.go:94-95)
QuotaCancelled ==
    /\ pc = "quota_block"
    /\ ctxDone
    /\ pc' = "idle"
    /\ ret' = "canceled"
    /\ doneAt' = now
    /\ UNCHANGED <<nonSourceVars, config, created, generateUntil, generated, readAt, now, ctxDone,
                   deadline, start, burstStart, slept, returned, pulls>>

\* if s.shouldSleep() { s.sleep(ctx, SleepTime) ... (source.go:99-100, 126-130)
BurstCheck ==
    /\ pc = "burst_check"
    /\ burstStart' = now
    /\ IF shouldSleep(config, now, generateUntil)
       THEN /\ pc' = "burst_sleep"
            /\ deadline' = SleepDeadline(now, config.SleepTime)
            /\ slept' = TRUE
       ELSE /\ pc' = "rate_check"
            /\ UNCHANGED <<deadline, slept>>
    /\ UNCHANGED <<nonSourceVars, config, created, generateUntil, generated, readAt, now, ctxDone,
                   start, ret, returned, pulls, doneAt>>

\* the burst sleep's timer fires; generateUntil = time.Now().Add(GenerateTime)
\* (source.go:133-134, 104)
BurstWake ==
    /\ pc = "burst_sleep"
    /\ ~ctxDone
    /\ now >= deadline
    /\ generateUntil' = now + config.GenerateTime
    /\ pc' = "rate_check"
    /\ UNCHANGED <<nonSourceVars, config, created, generated, readAt, now, ctxDone, deadline,
                   start, burstStart, slept, ret, returned, pulls, doneAt>>

\* a cancelled burst sleep that opens a generating window all the same
BurstCancelledMovesWindow ==
    /\ pc = "burst_sleep"
    /\ ctxDone
    /\ pc' = "idle"
    /\ ret' = "canceled"
    /\ doneAt' = now
    /\ generateUntil' = now + config.GenerateTime
    /\ UNCHANGED <<nonSourceVars, config, created, generated, readAt, now, ctxDone,
                   deadline, start, burstStart, slept, returned, pulls>>

\* the burst sleep ends with ctx.Done() (source.go:131-132, 101-103)
BurstCancelled ==
    /\ pc = "burst_sleep"
    /\ ctxDone
    /\ pc' = "idle"
    /\ ret' = "canceled"
    /\ doneAt' = now
    /\ UNCHANGED <<nonSourceVars, config, created, generateUntil, generated, readAt, now, ctxDone,
                   deadline, start, burstStart, slept, returned, pulls>>

\* err := s.sleep(ctx, s.config.ReadTime) (source.go:107, 126-145)
RateCheck ==
    /\ pc = "rate_check"
    /\ IF sleepBlocks(config.ReadTime)
       THEN /\ pc' = "read_sleep"
            /\ deadline' = SleepDeadline(now, config.ReadTime)
            /\ UNCHANGED <<ret, doneAt>>
       ELSE IF ctxDone
       THEN /\ pc' = "idle"
            /\ ret' = "canceled"
            /\ doneAt' = now
            /\ UNCHANGED deadline
       ELSE /\ pc' = "generate"
            /\ UNCHANGED <<deadline, ret, doneAt>>
    /\ UNCHANGED <<nonSourceVars, config, created, generateUntil, generated, readAt, now, ctxDone,
                   start, burstStart, slept, returned, pulls>>

\* the read-time sleep's timer fires (source.go:133-134)
ReadWake ==
    /\ pc = "read_sleep"
    /\ ~ctxDone
    /\ now >= deadline
    /\ pc' = "generate"
    /\ UNCHANGED <<nonSourceVars, config, created, generateUntil, generated, readAt, now, ctxDone,
                   deadline, start, burstStart, slept, ret, returned, pulls, doneAt>>

\* a read-time sleep that ignores ctx.Done() and carries on to the record
ReadCancelledAsTimer ==
    /\ pc = "read_sleep"
    /\ ctxDone
    /\ pc' = "generate"
    /\ UNCHANGED <<nonSourceVars, config, created, generateUntil, generated, readAt, now, ctxDone,
                   deadline, start, burstStart, slept, ret, doneAt, returned, pulls>>

\* the read-time sleep ends with ctx.Done() (source.go:131-132, 108-110)
ReadCancelled ==
    /\ pc = "read_sleep"
    /\ ctxDone
    /\ pc' = "idle"
    /\ ret' = "canceled"
    /\ doneAt' = now
    /\ UNCHANGED <<nonSourceVars, config, created, generateUntil, generated, readAt, now, ctxDone,
                   deadline, start, burstStart, slept, returned, pulls>>

\* rec, err := s.recordGenerator.generate(); return rec, nil (source.go:112-116)
Generate ==
    /\ pc = "generate"
    /\ generated' = generated + 1
    /\ readAt' = now
    /\ returned' = returned + 1
    /\ ret' = "record"
    /\ doneAt' = now
    /\ pc' = "idle"
    /\ UNCHANGED <<nonSourceVars, config, created, generateUntil, now, ctxDone, deadline, start,
                   burstStart, slept, pulls>>

\* s.recordGenerator.generate() returns an error and Read returns it
\* (source.go:112-115)
GenerateFails ==
    /\ pc = "generate"
    /\ ret' = "error"
    /\ doneAt' = now
    /\ pc' = "idle"
    /\ UNCHANGED <<nonSourceVars, config, created, generateUntil, generated, readAt, now,
                   ctxDone, deadline, start, burstStart, slept, returned, pulls>>

\* the host cancels the context of the running Read
Cancel ==
    /\ pc # "idle"
    /\ ~ctxDone
    /\ ctxDone' = TRUE
    /\ UNCHANGED <<nonSourceVars, config, created, generateUntil, generated, readAt, now, pc,
                   deadline, start, burstStart, slept, ret, returned, pulls, doneAt>>

\* the clock advances: between pulls, or while the running Read is blocked
\* and its timer has not fired
Tick ==
    /\ now < MaxTime
    /\ \/ pc = "idle"
       \/ pc = "quota_block"
       \/ pc \in {"burst_sleep", "read_sleep"} /\ now < deadline
    /\ now' = now + 1
    /\ UNCHANGED <<nonSourceVars, config, created, generateUntil, generated, readAt, pc, ctxDone,
                   deadline, start, burstStart, slept, ret, returned, pulls, doneAt>>

Next ==
    \/ \E c \in BOOLEAN : ReadEnter(c)
    \/ QuotaCancelled
    \/ BurstCheck
    \/ BurstWake
    \/ BurstCancelled
    \/ RateCheck
    \/ ReadWake
    \/ ReadCancelled
    \/ Generate
    \/ GenerateFails
    \/ Cancel
    \/ Tick

Spec == Init /\ [][Next]_vars

\* A running Read call is a goroutine that keeps being scheduled.
FairSpec ==
    /\ Spec
    /\ WF_vars(QuotaCancelled)
    /\ WF_vars(BurstCheck)
    /\ WF_vars(BurstWake)
    /\ WF_vars(BurstCancelled)
    /\ WF_vars(RateCheck)
    /\ WF_vars(ReadWake)
    /\ WF_vars(ReadCancelled)
    /\ WF_vars(Generate)

TypeOK ==
    /\ config \in Configs
    /\ created \in 0..MaxPulls
    /\ generateUntil \in ZeroTime..(MaxTime + MaxGen)
    /\ generated \in 0..MaxPulls
    /\ now \in ConstructTime..MaxTime
    /\ pc \in PCs
    /\ ctxDone \in BOOLEAN
    /\ ret \in {"none", "record", "canceled", "error"}
    /\ returned \in 0..MaxPulls
    /\ pulls \in 0..MaxPulls

\* ---- starting the connector again ----

\* an Open that takes up the count where the position says it was
OpenResumes(position) == position

\* Source.Open(_ context.Context, _ sdk.Position): the position is not read;
\* the count a Source starts from after Open
Open(position) == 0

\* The pipeline is stopped and started again: a new Source (NewSource), the
\* same configuration (Configure), then Open with the position of the last
\* record that was acknowledged, which is one of the records returned so far.
\* A call that is running ends with the old Source.
Restart(position) ==
    /\ restarts < MaxRestarts
    /\ position <= returned
    /\ restarts' = restarts + 1
    /\ openedWith' = position
    /\ created' = Open(position)
    /\ generated' = Open(position)
    /\ returned' = 0
    /\ generateUntil' = ZeroTime
    /\ readAt' = ZeroTime
    /\ pc' = "idle"
    /\ ctxDone' = FALSE
    /\ deadline' = ZeroTime
    /\ start' = ZeroTime
    /\ burstStart' = ZeroTime
    /\ slept' = FALSE
    /\ ret' = "none"
    /\ doneAt' = ZeroTime
    /\ UNCHANGED <<config, now, pulls, genVars, limVars, buildVars, confVars>>

RestartNext ==
    \/ Next
    \/ \E position \in 0..MaxPulls : Restart(position)

RestartSpec == Init /\ [][RestartNext]_vars

\* ---- the record generators of package internal ----

Operations == {"create", "update", "delete", "snapshot"}

\* the operation lists the generators are built with: the generator at
\* index i has the list at place (i % 5) + 1
OperationLists ==
    <<<<"create", "update", "delete", "snapshot">>,
      <<"create">>, <<"update">>, <<"delete">>, <<"snapshot">>>>

operationsOf(i) == OperationLists[(i % Len(OperationLists)) + 1]

\* numbers of generators handed to Combine
GeneratorCounts == {1, 2, MaxGens}

\* the generate time when generateTime is left out: the maximal duration, the
\* generator generates forever; longer than any clock reading of the model
Forever == MaxTime + 1

\* the timing settings of a configuration that leaves every optional
\* parameter out (source.go:39-56): no ceiling, no read time, no sleep time,
\* generating forever.  format.type and format.options are required and have
\* no default; they are not part of this record.
DefaultConfig ==
    [RecordCount |-> -1, ReadTime |-> 0, SleepTime |-> 0, GenerateTime |-> Forever]

\* strconv.Itoa of a non-negative integer, as its sequence of decimal digits
RECURSIVE Itoa(_)
Itoa(n) == IF n < 10 THEN <<n>> ELSE Itoa(n \div 10) \o <<n % 10>>

\* a payload that is put in After whatever the operation is
PayloadAfterOnly(op) == [before |-> 0, after |-> 1]

\* the payload switch of baseRecordGenerator.Next; a field holds the ordinal
\* of the generateData() call of this Next() that filled it, 0 if it is unset
Payload(op) ==
    CASE op \in {"snapshot", "create"} -> [before |-> 0, after |-> 1]
      [] op = "update" -> [before |-> 1, after |-> 2]
      [] op = "delete" -> [before |-> 1, after |-> 0]

\* a Next that takes the position before it increments the count
BaseNextCountsLate(g, k, word) ==
    LET op == g.operations[k]
    IN  [gen |-> [g EXCEPT !.count = g.count + 1],
         rec |-> [position |-> Itoa(g.count), operation |-> op,
                  collection |-> g.collection, key |-> word,
                  before |-> Payload(op).before, after |-> Payload(op).after]]

\* a Next that picks its operation among all four, whatever its list is
BaseNextAnyOperation(g, k, word) ==
    LET c == g.count + 1
        op == OperationLists[1][((k + c) % 4) + 1]
    IN  [gen |-> [g EXCEPT !.count = c],
         rec |-> [position |-> Itoa(c), operation |-> op,
                  collection |-> g.collection, key |-> word,
                  before |-> Payload(op).before, after |-> Payload(op).after]]

\* baseRecordGenerator.Next of generator g when rand.Intn picks operation k
\* and randomWord() gives word: the generator after g.count++ and the record
\* it returns, with the collection of its metadata
baseNext(g, k, word) ==
    LET c == g.count + 1
        op == g.operations[k]
    IN  [gen |-> [g EXCEPT !.count = c],
         rec |-> [position |-> Itoa(c), operation |-> op,
                  collection |-> g.collection, key |-> word,
                  before |-> Payload(op).before, after |-> Payload(op).after]]

\* a Combine that wraps a single generator as well
CombinedAlways(m) == TRUE

\* Combine: a single generator is returned as it is, more are wrapped in a
\* combinedRecordGenerator
combined(m) == m # 1

\* a prefix that counts the generators from 1
NewPosOneBased(i, position) == Itoa(i + 1) \o position

\* combinedRecordGenerator.Next: the prefix strconv.Itoa(i) followed by the
\* bytes of the sub-generator's position
newPos(i, position) == Itoa(i) \o position

\* the words randomWord() gives
Words == {"w1", "w2"}

\* the indices rand.Intn(m) is taken to return: the first MaxEdge and the
\* last MaxEdge of 0..(m - 1)
Picks(m) == {i \in 0..(m - 1) : i < MaxEdge \/ i >= m - MaxEdge}

\* the collection of the generator at index i: the default collection, which
\* puts no collection in the metadata, comes first
collectionOf(i) == IF i = 0 THEN <<>> ELSE <<"c", i>>

GenInit ==
    /\ config = DefaultConfig
    /\ NewSource
    /\ \E m \in GeneratorCounts :
          generators =
              [i \in 0..(m - 1) |->
                  [collection |-> collectionOf(i), operations |-> operationsOf(i),
                   count |-> 0]]
    /\ rec = NoRecord
    /\ subRec = NoRecord
    /\ emitted = {}
    /\ calls = 0
    /\ NoLimiter
    /\ NoBuild
    /\ FirstOpen
    /\ NoConfig

\* Next() on the result of Combine for one generator: generators[0].Next()
DirectNext(k, word) ==
    /\ ~combined(Cardinality(DOMAIN generators))
    /\ calls < MaxCalls
    /\ LET r == baseNext(generators[0], k, word)
       IN  /\ generators' = [generators EXCEPT ![0] = r.gen]
           /\ subRec' = r.rec
           /\ rec' = r.rec
           /\ emitted' = emitted \cup {<<0, r.rec.position>>}
    /\ calls' = calls + 1
    /\ UNCHANGED nonGenVars

\* a combinator that asks every generator for a record and returns the one
\* of generator i
CombinedNextAsksAll(i, k, word) ==
    /\ combined(Cardinality(DOMAIN generators))
    /\ calls < MaxCalls
    /\ Cardinality({j \in DOMAIN generators : generators[j].count > 0} \cup {i})
          <= MaxPicked
    /\ LET r == baseNext(generators[i], k, word)
       IN  /\ generators' = [j \in DOMAIN generators |->
                                 IF j = i THEN r.gen
                                 ELSE baseNext(generators[j], 1, word).gen]
           /\ subRec' = r.rec
           /\ rec' = [r.rec EXCEPT !.position = newPos(i, r.rec.position)]
           /\ emitted' = emitted \cup {<<i, newPos(i, r.rec.position)>>}
    /\ calls' = calls + 1
    /\ UNCHANGED nonGenVars

\* combinedRecordGenerator.Next() when rand.Intn picks generator i; one
\* behaviour draws from at most MaxPicked of the generators
CombinedNext(i, k, word) ==
    /\ combined(Cardinality(DOMAIN generators))
    /\ calls < MaxCalls
    /\ Cardinality({j \in DOMAIN generators : generators[j].count > 0} \cup {i})
          <= MaxPicked
    /\ LET r == baseNext(generators[i], k, word)
       IN  /\ generators' = [generators EXCEPT ![i] = r.gen]
           /\ subRec' = r.rec
           /\ rec' = [r.rec EXCEPT !.position = newPos(i, r.rec.position)]
           /\ emitted' = emitted \cup {<<i, newPos(i, r.rec.position)>>}
    /\ calls' = calls + 1
    /\ UNCHANGED nonGenVars

GenNext ==
    \/ \E k \in 1..Len(generators[0].operations), word \in Words : DirectNext(k, word)
    \/ \E i \in Picks(Cardinality(DOMAIN generators)) :
          \E k \in 1..Len(generators[i].operations), word \in Words :
             CombinedNext(i, k, word)

GenSpec == GenInit /\ [][GenNext]_vars

\* ---- Config.RateLimit and the read-time step of Read ----

\* A rate.Limit is a number of records per tick, kept as <<records, ticks>>.
\* rate.Limit(0): no limit
NoLimit == <<0, 1>>

\* rate.Every(interval): one record per interval
Every(interval) == <<1, interval>>

\* Config.RateLimit: the read time turned into a rate when no rate is set
RateLimit(c) ==
    IF c.Rate[1] = 0 /\ c.ReadTime > 0 THEN Every(c.ReadTime) ELSE c.Rate

\* the configuration with the deprecated read time d and no rate
ReadTimeConfig(d) == [Rate |-> NoLimit, ReadTime |-> d]

\* the configuration with the rate 1/d and no read time
RateConfig(d) == [Rate |-> <<1, d>>, ReadTime |-> 0]

\* the two ways of setting the same rate
Settings == {"readTime", "rate"}

\* A Source opened with configuration c, as far as the pace of its pulls goes:
\* the limit RateLimit() gives for c, where its running Read is, the instant
\* that Read was called, its timer, its context, and the time each finished
\* Read took.
NewLimiter(c) ==
    [config |-> c, limit |-> RateLimit(c), pc |-> "idle", start |-> ConstructTime,
     deadline |-> ConstructTime, ctxDone |-> FALSE, delays |-> <<>>]

\* Read returns at instant t: the pull took the time since it was called
returns(l, t) ==
    [l EXCEPT !.pc = "idle", !.delays = Append(@, t - l.start)]

\* Read called at instant t with a context that is cancelled (c) or live, up
\* to the select of s.sleep(ctx, s.config.ReadTime): a cancelled context
\* ends the pull at once (source.go:87-90); a positive read time sets the
\* timer and blocks; otherwise the pull goes on without delay. Read consults
\* neither the rate setting nor RateLimit().
wait(l, t, c) ==
    LET called == [l EXCEPT !.start = t, !.ctxDone = c]
    IN  IF c THEN returns(called, t)
        ELSE IF sleepBlocks(l.config.ReadTime)
        THEN [called EXCEPT !.pc = "read_sleep",
                            !.deadline = SleepDeadline(t, l.config.ReadTime)]
        ELSE returns(called, t)

LimInit ==
    /\ config = DefaultConfig
    /\ NewSource
    /\ NoGenerator
    /\ \E d \in 1..MaxInterval :
          limiters = [x \in Settings |->
                         NewLimiter(IF x = "readTime" THEN ReadTimeConfig(d)
                                                      ELSE RateConfig(d))]
    /\ limNow = ConstructTime
    /\ NoBuild
    /\ FirstOpen
    /\ NoConfig

\* a pull at the instant limNow with the same context, made of both
\* configurations once the pull before it has returned under both
LimWait(c) ==
    /\ \A x \in Settings :
          /\ limiters[x].pc = "idle"
          /\ Len(limiters[x].delays) < MaxWaits
          /\ limNow + limiters[x].config.ReadTime <= MaxClock
    /\ limiters' = [x \in Settings |-> wait(limiters[x], limNow, c)]
    /\ UNCHANGED <<limNow, nonLimVars>>

\* the timer of a blocked pull fires (source.go:133-134)
LimWake ==
    /\ \E x \in Settings :
          /\ limiters[x].pc = "read_sleep"
          /\ ~limiters[x].ctxDone
          /\ limNow >= limiters[x].deadline
          /\ limiters' = [limiters EXCEPT ![x] = returns(@, limNow)]
    /\ UNCHANGED <<limNow, nonLimVars>>

\* the host cancels the context of the running pull
LimCancel ==
    /\ \E x \in Settings : limiters[x].pc = "read_sleep" /\ ~limiters[x].ctxDone
    /\ limiters' = [x \in Settings |->
                       IF limiters[x].pc = "read_sleep"
                       THEN [limiters[x] EXCEPT !.ctxDone = TRUE]
                       ELSE limiters[x]]
    /\ UNCHANGED <<limNow, nonLimVars>>

\* a blocked pull ends with ctx.Done() (source.go:131-132, 108-110)
LimCancelled ==
    /\ \E x \in Settings :
          /\ limiters[x].pc = "read_sleep"
          /\ limiters[x].ctxDone
          /\ limiters' = [limiters EXCEPT ![x] = returns(@, limNow)]
    /\ UNCHANGED <<limNow, nonLimVars>>

\* time passes: between pulls, or while a blocked pull's timer has not fired
LimTick ==
    /\ limNow < MaxClock
    /\ \A x \in Settings :
          limiters[x].pc = "read_sleep" => limNow < limiters[x].deadline
    /\ limNow' = limNow + 1
    /\ UNCHANGED <<limiters, nonLimVars>>

LimNext ==
    \/ \E c \in BOOLEAN : LimWait(c)
    \/ LimWake
    \/ LimCancel
    \/ LimCancelled
    \/ LimTick

LimSpec == LimInit /\ [][LimNext]_vars

\* ---- validating a collection's format and building its generator ----

\* internal.KnownTypes
KnownTypes == {"int", "string", "time", "bool", "duration"}

\* the type tags a field spec is drawn from: the known ones, one in upper
\* case, an unknown one and a blank one
Tags == KnownTypes \cup {"INT", "float", " "}

\* the field names a field spec is drawn from, in byte order; one is blank
Names == <<" ", "id", "name">>

\* the contents a file can have
Contents == {"v1", "v2"}

\* strings.ToLower on the tags
ToLower(t) == IF t = "INT" THEN "int" ELSE t

\* strings.Trim(x, " ") on the names and tags
Trim(x) == IF x = " " THEN "" ELSE x

\* FormatConfig.knownType
knownType(typeString) == ToLower(typeString) \in KnownTypes

\* FormatConfig.validateFields: the errors it joins, each with its field
validateFields(fields) ==
    {<<"empty field name", f>> : f \in {x \in DOMAIN fields : Trim(x) = ""}}
    \cup {<<"empty type", f>> : f \in {x \in DOMAIN fields : Trim(fields[x]) = ""}}
    \cup {<<"unknown data type", f>> : f \in {x \in DOMAIN fields : ~knownType(fields[x])}}

\* FormatConfig.Validate: the errors it returns, none if the format is valid
FormatValidate(c) ==
    CASE c.Type = "file" ->
            IF c.Path = "" THEN {<<"file path not specified", "">>} ELSE {}
      [] c.Type \in {"structured", "raw"} -> validateFields(c.Options)
      [] OTHER -> {<<"unknown format type", "">>}

\* the field specs of at most MaxFields fields
FieldSpecs ==
    UNION {[ns -> Tags] :
              ns \in {x \in SUBSET {Names[j] : j \in DOMAIN Names} :
                         Cardinality(x) <= MaxFields}}

FormatConfigs ==
    [Type : {"file"}, Options : {<<>>}, Path : {"", "f"}]
    \cup [Type : {"structured", "raw"}, Options : FieldSpecs, Path : {""}]

\* the switch of randomStructuredData: the Go type of the value each case
\* stores (rand.Int(), randomWord(), time.Now().UTC(),
\* time.Duration(...) * time.Second, rand.Int()%2 == 0)
valueOf(typ) ==
    CASE typ = "int" -> "int"
      [] typ = "string" -> "string"
      [] typ = "time" -> "time.Time"
      [] typ = "duration" -> "time.Duration"
      [] typ = "bool" -> "bool"

\* a synthesizer that leaves out a field of a type it has no case for
RandomDataSkipsUnknown(fields) ==
    [NoData EXCEPT !.kind = "structured",
                   !.fields = [f \in {x \in DOMAIN fields : fields[x] \in KnownTypes}
                                 |-> valueOf(fields[f])]]

\* randomStructuredData: every field gets the value of its type's case; a
\* type without a case panics
randomStructuredData(fields) ==
    IF \E f \in DOMAIN fields : fields[f] \notin KnownTypes
    THEN [NoData EXCEPT !.kind = "panic"]
    ELSE [NoData EXCEPT !.kind = "structured",
                        !.fields = [f \in DOMAIN fields |-> valueOf(fields[f])]]

\* what json.Marshal writes for a value of a Go type: a time.Time marshals
\* itself as a quoted RFC 3339 string, a time.Duration is an int64
JsonKind(kind) ==
    CASE kind \in {"int", "time.Duration"} -> "number"
      [] kind \in {"string", "time.Time"} -> "string"
      [] kind = "bool" -> "bool"

\* the Go type json.Unmarshal puts in a map[string]any for a JSON value
anyOf(jsonValue) ==
    CASE jsonValue = "number" -> "float64"
      [] jsonValue = "string" -> "string"
      [] jsonValue = "bool" -> "bool"

\* json.Marshal of structured data: the members in the order of their names
RECURSIVE jsonMarshal(_, _)
jsonMarshal(fields, j) ==
    IF j > Len(Names) THEN <<>>
    ELSE (IF Names[j] \in DOMAIN fields
          THEN <<[name |-> Names[j], value |-> JsonKind(fields[Names[j]])]>>
          ELSE <<>>) \o jsonMarshal(fields, j + 1)

\* json.Unmarshal into a map[string]any: name -> Go type of the value
jsonUnmarshal(members) ==
    [n \in {members[j].name : j \in DOMAIN members} |->
        anyOf(members[CHOOSE j \in DOMAIN members : members[j].name = n].value)]

\* randomRawData: the structured data, marshalled
randomRawData(fields) ==
    LET d == randomStructuredData(fields)
    IN  IF d.kind = "panic" THEN d
        ELSE [NoData EXCEPT !.kind = "raw", !.json = jsonMarshal(d.fields, 1)]

\* a file generator that reads the file when the data is asked for
FileDataRereads(g, f) ==
    IF f = "absent" THEN [NoData EXCEPT !.kind = "error"]
    ELSE [NoData EXCEPT !.kind = "raw", !.bytes = f]

\* generateData of a file generator: the bytes read at construction
fileData(g, f) == [NoData EXCEPT !.kind = "raw", !.bytes = g.bytes]

\* a constructor that puts the read off until the data is asked for
NewFileGeneratorLazy(path, f) == [state |-> "ok", bytes |-> "nil"]

\* NewFileRecordGenerator: os.ReadFile(path), an error if that fails
NewFileRecordGenerator(path, f) ==
    IF path = "" \/ f = "absent"
    THEN [state |-> "error", bytes |-> "nil"]
    ELSE [state |-> "ok", bytes |-> f]

BuildInit ==
    /\ config = DefaultConfig
    /\ NewSource
    /\ NoGenerator
    /\ NoLimiter
    /\ format \in FormatConfigs
    /\ file \in (IF format.Type = "file" /\ format.Path # ""
                 THEN Contents \cup {"absent"} ELSE {"absent"})
    /\ generator = NotBuilt
    /\ reads = 0
    /\ data = NoData
    /\ dataAt = "absent"
    /\ valid = [checked |-> FALSE, errs |-> {}]
    /\ FirstOpen
    /\ NoConfig

\* FormatConfig.Validate on the format
ValidateFormat ==
    /\ ~valid.checked
    /\ valid' = [checked |-> TRUE, errs |-> FormatValidate(format)]
    /\ UNCHANGED <<format, file, generator, reads, data, dataAt, nonBuildVars>>

\* NewFileRecordGenerator(collection, operations, format.Path)
BuildFile ==
    /\ format.Type = "file"
    /\ generator.state = "none"
    /\ generator' = NewFileRecordGenerator(format.Path, file)
    /\ reads' = reads + 1
    /\ UNCHANGED <<format, file, data, dataAt, valid, nonBuildVars>>

\* NewStructuredRecordGenerator(ctx, collection, operations, format.Options,
\* subject): with a subject the schema is made from one synthesized value,
\* and making it succeeds or fails
BuildStructured(subject, schemaOk) ==
    /\ format.Type = "structured"
    /\ generator.state = "none"
    /\ generator' =
          [NotBuilt EXCEPT !.state =
              IF subject = "" THEN "ok"
              ELSE IF randomStructuredData(format.Options).kind = "panic" THEN "panic"
              ELSE IF schemaOk THEN "ok" ELSE "error"]
    /\ UNCHANGED <<format, file, reads, data, dataAt, valid, nonBuildVars>>

\* NewRawRecordGenerator(collection, operations, format.Options)
BuildRaw ==
    /\ format.Type = "raw"
    /\ generator.state = "none"
    /\ generator' = [NotBuilt EXCEPT !.state = "ok"]
    /\ UNCHANGED <<format, file, reads, data, dataAt, valid, nonBuildVars>>

\* generateData() of the generator that was built, as Next() calls it
NextData ==
    /\ generator.state = "ok"
    /\ data' = CASE format.Type = "file" -> fileData(generator, file)
                 [] format.Type = "structured" -> randomStructuredData(format.Options)
                 [] format.Type = "raw" -> randomRawData(format.Options)
    /\ dataAt' = file
    /\ UNCHANGED <<format, file, generator, reads, valid, nonBuildVars>>

\* the file is written with another content
WriteFile(c) ==
    /\ format.Type = "file"
    /\ format.Path # ""
    /\ c # file
    /\ file' = c
    /\ UNCHANGED <<format, generator, reads, data, dataAt, valid, nonBuildVars>>

\* the file is removed
RemoveFile ==
    /\ format.Type = "file"
    /\ file # "absent"
    /\ file' = "absent"
    /\ UNCHANGED <<format, generator, reads, data, dataAt, valid, nonBuildVars>>

BuildNext ==
    \/ ValidateFormat
    \/ BuildFile
    \/ \E subject \in {"", "subject"}, schemaOk \in BOOLEAN :
          BuildStructured(subject, schemaOk)
    \/ BuildRaw
    \/ NextData
    \/ \E c \in Contents : WriteFile(c)
    \/ RemoveFile

BuildSpec == BuildInit /\ [][BuildNext]_vars

\* ---- Config.Validate ----

\* opencdc.Operation.UnmarshalText: the names of the four operations parse
parsesAsOperation(raw) == raw \in Operations

\* CollectionConfig.parseOperations: the error of the first name that does
\* not parse
parseOperationsErrors(operations) ==
    IF \E j \in DOMAIN operations : ~parsesAsOperation(operations[j])
    THEN {<<"failed parsing operation", "">>} ELSE {}

\* CollectionConfig.Validate: the errors of the operations and of the format
CollectionValidate(c) ==
    parseOperationsErrors(c.Operations) \cup FormatValidate(c.Format)

\* Config.GetCollectionConfigs: the default collection under the name "" if
\* its format type is set, and the named collections
GetCollectionConfigs(c) ==
    [n \in (IF c.Format.Type # "" THEN {""} ELSE {}) \cup DOMAIN c.Collections |->
        IF n \in DOMAIN c.Collections THEN c.Collections[n]
        ELSE [Operations |-> c.Operations, Format |-> c.Format]]

\* a validation that wants a positive generate time whatever the sleep time is
ValidateTimingStrict(c) ==
    (IF c.ReadTime > 0 /\ c.Rate[1] > 0 THEN {<<"readTime and rate", "">>} ELSE {})
    \cup (IF c.ReadTime < 0 THEN {<<"readTime", "">>} ELSE {})
    \cup (IF c.Rate[1] < 0 THEN {<<"rate", "">>} ELSE {})
    \cup (IF c.SleepTime < 0 THEN {<<"burst.sleepTime", "">>} ELSE {})
    \cup (IF c.GenerateTime <= 0 THEN {<<"burst.generateTime", "">>} ELSE {})

\* Config.Validate, the checks of readTime, rate and burst
validateTiming(c) ==
    (IF c.ReadTime > 0 /\ c.Rate[1] > 0 THEN {<<"readTime and rate", "">>} ELSE {})
    \cup (IF c.ReadTime < 0 THEN {<<"readTime", "">>} ELSE {})
    \cup (IF c.Rate[1] < 0 THEN {<<"rate", "">>} ELSE {})
    \cup (IF c.SleepTime < 0 THEN {<<"burst.sleepTime", "">>} ELSE {})
    \cup (IF c.SleepTime > 0 /\ c.GenerateTime <= 0
          THEN {<<"burst.generateTime", "">>} ELSE {})

\* Config.Validate, the checks of the collections
validateCollections(c) ==
    LET collections == GetCollectionConfigs(c)
    IN  (IF DOMAIN collections = {} THEN {<<"no collection", "">>} ELSE {})
        \cup {<<"failed validating collection", n>> :
                 n \in {x \in DOMAIN collections :
                           CollectionValidate(collections[x]) # {}}}

\* Config.Validate: the errors it joins
Validate(c) == validateTiming(c) \cup validateCollections(c)

\* the collections a Config is drawn with: a valid raw one, a valid file one,
\* and one for each way a collection can be wrong
CollectionChoices ==
    {[Operations |-> <<"create">>,
      Format |-> [Type |-> "raw", Options |-> [id |-> "int"], Path |-> ""]],
     [Operations |-> <<"update", "delete">>,
      Format |-> [Type |-> "file", Options |-> <<>>, Path |-> "f"]],
     [Operations |-> <<"insert">>,
      Format |-> [Type |-> "raw", Options |-> [id |-> "int"], Path |-> ""]],
     [Operations |-> <<"create">>,
      Format |-> [Type |-> "structured", Options |-> [id |-> "float"], Path |-> ""]],
     [Operations |-> <<"create">>,
      Format |-> [Type |-> "file", Options |-> <<>>, Path |-> ""]],
     [Operations |-> <<"create">>,
      Format |-> [Type |-> "xml", Options |-> <<>>, Path |-> ""]]}

\* the names of the named collections: keys of the map Config.Collections
CollectionNames == {"", "users"}

CfgInit ==
    /\ config = DefaultConfig
    /\ NewSource
    /\ NoGenerator
    /\ NoLimiter
    /\ NoBuild
    /\ FirstOpen
    /\ \E readTime, rate, sleepTime, generateTime \in -1..MaxDuration,
          default \in CollectionChoices \cup {[Operations |-> <<"create">>, Format |-> NoFormat]},
          names \in SUBSET CollectionNames :
          \E collections \in [names -> CollectionChoices] :
             conf = [ReadTime |-> readTime, Rate |-> <<rate, 1>>,
                    SleepTime |-> sleepTime, GenerateTime |-> generateTime,
                    Operations |-> default.Operations, Format |-> default.Format,
                    Collections |-> collections]
    /\ confResult = [checked |-> FALSE, errs |-> {}]

\* Config.Validate on conf
ValidateConfig ==
    /\ ~confResult.checked
    /\ confResult' = [checked |-> TRUE, errs |-> Validate(conf)]
    /\ UNCHANGED <<conf, nonConfVars>>

CfgNext == ValidateConfig

CfgSpec == CfgInit /\ [][CfgNext]_vars

\* The values the model uses in the statements below.
N == config.RecordCount
S == config.SleepTime
G == config.GenerateTime

\* C1: with a record ceiling N > 0, once N pulls have returned a record every
\* later pull either finds its context already cancelled or blocks in the
\* quota block; it leaves the quota block only when its context is cancelled,
\* and then with the cancellation error; no further record is ever returned.
C1_CeilingBlocks ==
    [][(N > 0 /\ returned >= N) =>
          /\ returned' = returned
          /\ ret' # "record" \/ ret = "record"
          /\ pulls' # pulls =>
                \/ pc' = "quota_block"
                \/ pc' = "idle" /\ ret' = "canceled" /\ ctxDone'
          /\ (pc = "quota_block" /\ pc' # "quota_block") =>
                ctxDone /\ pc' = "idle" /\ ret' = "canceled"]_vars

\* C1 witness: the (N+1)-th pull blocked for some time in the quota block and
\* returned the cancellation error.
C1_Witness ==
    /\ N > 0
    /\ returned = N
    /\ pulls = N + 1
    /\ pc = "idle"
    /\ ret = "canceled"
    /\ doneAt > start

\* C2 (as claimed): the produced-count counts exactly the records returned: it
\* is incremented immediately before a record is returned and a pull that ends
\* with the cancellation error leaves it unchanged, so the quota block is only
\* entered after N records were returned.
C2_CountOnlyOnReturn ==
    /\ pc = "idle" => created = returned
    /\ (pc = "quota_block" /\ N > 0) => returned >= N

\* C3 (as claimed): the record is synthesized before the burst wait and the
\* rate-limit wait begin: the timestamp of a returned record is not later
\* than the instant the pull began its burst wait.
C3_SynthesisBeforeWaits ==
    (pc = "idle" /\ ret = "record") => readAt <= burstStart

\* C4 (as claimed): with S > 0 the schedule starts inside a generating window:
\* a first pull issued less than G after construction does not sleep for the
\* burst schedule.
C4_StartsGenerating ==
    (S > 0 /\ pulls = 1 /\ start < ConstructTime + G) => ~slept

\* C5 (as claimed): on return from the burst wait the window end is
\* construction time + G plus a whole multiple of S + G, and lies strictly
\* after the current time.
C5_PhaseLocked ==
    (S > 0 /\ pc = "rate_check") =>
        /\ \E k \in 0..MaxTime : generateUntil = ConstructTime + G + k * (S + G)
        /\ generateUntil > now

\* C6 (as claimed): a pull that makes its burst check inside the sleeping
\* window that follows a generating window wakes at the end of that sleeping
\* window, and a pull that arrives in the generating window after it does not
\* sleep at all.
C6_RemainderOnly ==
    (S > 0 /\ generateUntil # ZeroTime /\ pc = "burst_sleep") =>
        /\ burstStart < generateUntil + S => deadline = generateUntil + S
        /\ burstStart >= generateUntil + S => burstStart >= generateUntil + S + G

\* C7: the burst sleep never lasts longer than S, and with the read time off
\* a pull that returns a record took no time if it did not cross into a
\* sleeping window and at most S if it did.
C7_BurstDelayAtMostS ==
    /\ pc = "burst_sleep" => (deadline - burstStart <= S /\ now <= deadline)
    /\ (config.ReadTime = 0 /\ pc = "idle" /\ ret = "record") =>
          /\ doneAt - start <= S
          /\ ~slept => doneAt = start

\* C7 witness: with the read time off, a pull inside the generating window
\* returned at once and a later pull crossed into a sleeping window and
\* returned S later.
C7_Witness ==
    /\ config.ReadTime = 0
    /\ S > 0
    /\ returned >= 3
    /\ pc = "idle"
    /\ ret = "record"
    /\ slept
    /\ doneAt - start = S

\* C8: with S > 0, a burst check made strictly before the window end goes
\* straight on to the read-time step: no sleep, no time passes, and the
\* window end is unchanged.
C8_InsideWindowNoSleep ==
    [][(S > 0 /\ pc = "burst_check" /\ now < generateUntil /\ pc' # pc) =>
          /\ pc' = "rate_check"
          /\ ~slept'
          /\ UNCHANGED <<generateUntil, now, deadline>>]_vars

\* C8 witness: a pull made its burst check before the window end and passed
\* without sleeping.
C8_Witness ==
    /\ S > 0
    /\ pc = "rate_check"
    /\ ~slept
    /\ burstStart < generateUntil
    /\ burstStart = now

\* C9: with S = 0 no pull ever enters the burst sleep and the window end is
\* never modified, whatever G and the time are.
C9_BurstDisabled ==
    /\ [][S = 0 => (generateUntil' = generateUntil /\ pc' # "burst_sleep" /\ ~slept')]_vars
    /\ [](S = 0 => generateUntil = ZeroTime)

\* C9 witness: with S = 0 and G arbitrary, pulls returned records at different
\* times and the window end is still untouched.
C9_Witness ==
    /\ S = 0
    /\ returned >= 2
    /\ now > ConstructTime
    /\ pc = "idle"
    /\ ret = "record"
    /\ generateUntil = ZeroTime

\* C10: a pull blocked in the burst sleep, the read-time sleep or the quota
\* block whose context is cancelled leaves the block only by returning the
\* cancellation error, and it eventually does.
C10_CancelReleases ==
    /\ [][(pc \in Blocked /\ ctxDone /\ pc' # pc) =>
             (pc' = "idle" /\ ret' = "canceled" /\ returned' = returned)]_vars
    /\ (pc \in Blocked /\ ctxDone) ~> (pc = "idle" /\ ret = "canceled")

\* C10 witness: a pull that sat in the burst sleep when its context was
\* cancelled has returned the cancellation error before its timer fired.
C10_Witness ==
    /\ pc = "idle"
    /\ ret = "canceled"
    /\ slept
    /\ ctxDone
    /\ doneAt > start
    /\ doneAt < deadline
\* The read time of the configuration, the fixed delay per record.
D == config.ReadTime

\* C11: a pull called with a context that is already cancelled returns the
\* cancellation error in the same step, without touching the produced-count,
\* the window end, the record generator or the clock, whether or not the
\* record ceiling has been reached.
C11_CancelledAtCall ==
    [][(pulls' # pulls /\ ctxDone') =>
          /\ pc' = "idle"
          /\ ret' = "canceled"
          /\ doneAt' = start'
          /\ UNCHANGED <<created, generateUntil, generated, readAt, returned, now>>]_vars

\* C11 witness: the first pull, made below the ceiling with a cancelled
\* context, has returned the cancellation error at the instant it was called.
C11_Witness ==
    /\ N > 0
    /\ pulls = 1
    /\ created = 0
    /\ generated = 0
    /\ pc = "idle"
    /\ ctxDone
    /\ ret = "canceled"
    /\ doneAt = start
    /\ start > ConstructTime

\* C12 (as claimed): with a record ceiling of 0 no pull ever takes the
\* quota-exhausted blocking path.
C12_ZeroMeansNoCeiling ==
    N = 0 => pc # "quota_block"

\* C13 (as claimed): with a per-record delay D > 0 (rate 1/D) and bursting
\* disabled, the first pull returns its record without delay and every later
\* record is returned at least D after the record before it.
C13_FirstPullImmediate ==
    [][(S = 0 /\ D > 0 /\ returned' = returned + 1) =>
          /\ returned = 0 => now' = start
          /\ returned > 0 => now' - readAt >= D]_vars

\* C14 (as claimed): with bursting disabled the delay of a pull that follows
\* a returned record is max(0, D - d), where d is the time the caller idled
\* since that record.
C14_CreditsIdleTime ==
    [][(S = 0 /\ D > 0 /\ returned > 0 /\ returned' = returned + 1) =>
          now' - start =
              IF D - (start - readAt) > 0 THEN D - (start - readAt) ELSE 0]_vars

\* C15 (as claimed): with S >= D > 0 a pull that crosses a sleeping window
\* returns its record S after it was called, not S + D.
C15_BurstWaitRefills ==
    (S > 0 /\ D > 0 /\ S >= D /\ pc = "idle" /\ ret = "record" /\ slept) =>
        doneAt - start = S

\* C17: with the read time 0 the rate-limit step never blocks: no pull is
\* ever in the read-time sleep, and the step goes on at once, to the record
\* or, if the context is cancelled, to the cancellation error.
C17_RateLimitOff ==
    /\ [](D = 0 => pc # "read_sleep")
    /\ [][(D = 0 /\ pc = "rate_check" /\ pc' # pc) =>
             /\ now' = now
             /\ deadline' = deadline
             /\ IF ctxDone THEN pc' = "idle" /\ ret' = "canceled"
                           ELSE pc' = "generate"]_vars

\* C17 witness: with the read time 0 and no burst, three pulls returned
\* their records at the instant they were called.
C17_Witness ==
    /\ D = 0
    /\ S = 0
    /\ returned = 3
    /\ pc = "idle"
    /\ ret = "record"
    /\ doneAt = start
    /\ start > ConstructTime
\* The number of generators given to Combine.
M == Cardinality(DOMAIN generators)

\* C18 (as claimed): for every number of generators above 1, the positions
\* of all records the combinator returned are pairwise distinct.
C18_UniquePositions ==
    M > 1 => \A p, q \in emitted : p[2] = q[2] => p = q

\* C19: a combinator built over exactly one generator is that generator:
\* every record it returns is the record the generator returned, and its
\* position is the generator's count with no prefix.
C19_SingleIsIdentity ==
    (M = 1 /\ calls > 0) =>
        /\ rec = subRec
        /\ rec.position = Itoa(generators[0].count)
        /\ generators[0].count = calls

\* C19 witness: over one generator, the second record was returned with the
\* position "2".
C19_Witness ==
    /\ M = 1
    /\ calls = 2
    /\ rec.position = <<2>>
    /\ rec = subRec

\* C20: every generated record has only After set when its operation is
\* snapshot or create, Before and After set from two separate synthesis calls
\* when it is update, and only Before set when it is delete.
C20_PayloadByOperation ==
    calls > 0 =>
        /\ rec.operation \in Operations
        /\ rec.operation \in {"snapshot", "create"} =>
              rec.before = 0 /\ rec.after # 0
        /\ rec.operation = "update" =>
              rec.before # 0 /\ rec.after # 0 /\ rec.before # rec.after
        /\ rec.operation = "delete" =>
              rec.before # 0 /\ rec.after = 0

\* C20 witness: a generator with all four operations returned a delete
\* record after it had returned other records.
C20_Witness ==
    /\ calls > 2
    /\ rec.operation = "delete"
    /\ rec.before # 0
    /\ rec.after = 0
    /\ Len(generators[0].operations) = 4
\* C16 (as claimed): the configuration with read time d and no rate and the
\* one with rate 1/d and no read time get the same limit, 1/d, from
\* RateLimit(), and for the same pull times the same sequence of per-pull
\* delays once the pulls have returned.
C16_ReadTimeIsRate ==
    limiters # <<>> =>
        /\ limiters["readTime"].config.Rate = NoLimit
        /\ limiters["rate"].config.ReadTime = 0
        /\ limiters["readTime"].limit = limiters["rate"].config.Rate
        /\ limiters["rate"].limit = limiters["rate"].config.Rate
        /\ limiters["readTime"].limit =
               <<1, limiters["readTime"].config.ReadTime>>
        /\ (\A x \in Settings : limiters[x].pc = "idle") =>
               limiters["readTime"].delays = limiters["rate"].delays

\* the number a sequence of decimal digits stands for
RECURSIVE DecimalValue(_)
DecimalValue(digits) ==
    IF digits = <<>> THEN 0
    ELSE 10 * DecimalValue(SubSeq(digits, 1, Len(digits) - 1)) + digits[Len(digits)]

\* C21: the k-th Next() of one record generator returns the position that is
\* the decimal string of k: the count starts at 0, every call raises it by
\* exactly 1 and returns it as decimal digits without a leading zero, and a
\* generator used alone has returned as many distinct positions as it was
\* called.
C21_PositionIsCallNumber ==
    /\ [](\A i \in DOMAIN generators : generators[i].count >= 0)
    /\ [](calls = 0 =>
             \A i \in DOMAIN generators : generators[i].count = 0)
    /\ []((M = 1 /\ calls > 0) =>
             /\ generators[0].count = calls
             /\ Cardinality(emitted) = calls
             /\ {DecimalValue(p[2]) : p \in emitted} = 1..calls)
    /\ [][\A i \in DOMAIN generators :
             generators'[i] # generators[i] =>
                /\ generators'[i].count = generators[i].count + 1
                /\ DecimalValue(subRec'.position) = generators'[i].count
                /\ subRec'.position[1] # 0
                /\ \A d \in 1..Len(subRec'.position) :
                      subRec'.position[d] \in 0..9]_vars

\* C21 witness: a generator used alone was called twelve times and returned
\* the position "12".
C21_Witness ==
    /\ M = 1
    /\ calls = 12
    /\ rec.position = <<1, 2>>
    /\ Cardinality(emitted) = 12
\* C22: a file generator reads its file once, when it is constructed, and
\* keeps those bytes: generating data reads nothing, changes nothing in the
\* generator and gives the bytes read at construction, and writing or
\* removing the file afterwards does not change the generator.
C22_FileReadOnce ==
    /\ [](reads <= 1)
    /\ [][(format.Type = "file" /\ generator.state = "none"
              /\ generator'.state = "ok") =>
             generator'.bytes = file /\ reads' = 1]_vars
    /\ [][(format.Type = "file" /\ (data' # data \/ dataAt' # dataAt)) =>
             /\ reads' = reads
             /\ generator' = generator
             /\ data'.kind = "raw"
             /\ data'.bytes = generator.bytes]_vars
    /\ [][(file' # file) => (generator' = generator /\ data' = data)]_vars
    /\ []((format.Type = "file" /\ data.kind # "none") =>
             (data.kind = "raw" /\ data.bytes = generator.bytes
                 /\ data.bytes \in Contents))

\* C22 witness: the file was read with content v1 at construction and was
\* removed later; the data generated after that is still v1.
C22_Witness ==
    /\ format.Type = "file"
    /\ generator = [state |-> "ok", bytes |-> "v1"]
    /\ file = "absent"
    /\ dataAt = "absent"
    /\ data.kind = "raw"
    /\ data.bytes = "v1"
    /\ reads = 1

\* C23: when the file cannot be read, the constructor of the file generator
\* returns an error and no generator; no data is ever asked of it, and a
\* file generator that was constructed never fails to give data.
C23_UnreadableFailsAtBuild ==
    /\ [][(format.Type = "file" /\ generator.state = "none"
              /\ generator'.state # "none") =>
             /\ (format.Path = "" \/ file = "absent") =>
                   generator' = [state |-> "error", bytes |-> "nil"]
             /\ (format.Path # "" /\ file # "absent") => generator'.state = "ok"]_vars
    /\ [](generator.state = "error" => data = NoData)
    /\ [][generator.state = "error" => generator' = generator]_vars
    /\ [](format.Type = "file" => data.kind \in {"none", "raw"})

\* C23 witness: construction failed for a file that is not there; the file
\* was written afterwards and there is still no generator and no data.
C23_Witness ==
    /\ format.Type = "file"
    /\ format.Path # ""
    /\ generator.state = "error"
    /\ reads = 1
    /\ file \in Contents
    /\ data = NoData
\* C24 (as claimed): a generator built from a format that Validate accepts
\* gives data every time it is asked: it never panics and never fails.
C24_ValidNeverPanics ==
    (valid.checked /\ valid.errs = {} /\ generator.state = "ok") =>
        data.kind \in {"none", "raw", "structured"}

\* the tags of format's field spec all have a case in the synthesizer
AllRecognized == \A f \in DOMAIN format.Options : format.Options[f] \in KnownTypes

\* C25: synthesizing for a field spec with a type tag other than int,
\* string, time, bool, duration panics: no data comes out of it, with or
\* without that field.
C25_UnknownTagPanics ==
    /\ []((format.Type \in {"structured", "raw"} /\ ~AllRecognized) =>
             data.kind \in {"none", "panic"})
    /\ [][(format.Type \in {"structured", "raw"} /\ ~AllRecognized
              /\ generator.state = "ok" /\ dataAt' = file /\ data' # data) =>
             data' = [NoData EXCEPT !.kind = "panic"]]_vars
    /\ []((format.Type = "structured" /\ ~AllRecognized) =>
             generator.state \in {"none", "ok", "panic"})

\* C25 witness: a structured generator whose field spec has the tag float
\* was asked for data and panicked.
C25_Witness ==
    /\ format.Type = "structured"
    /\ \E f \in DOMAIN format.Options : format.Options[f] = "float"
    /\ \E f \in DOMAIN format.Options : format.Options[f] = "int"
    /\ generator.state = "ok"
    /\ data.kind = "panic"

\* the Go type the repository's test of structured data asserts for the
\* value of each tag (part_002:112-118: id.(int), name.(string), admin.(bool),
\* joined.(int64), nanoseconds since the epoch); the test has no duration
\* field, for which the type is the one the tag names
Prescribed ==
    [t \in KnownTypes |->
        CASE t = "int" -> "int"
          [] t = "string" -> "string"
          [] t = "bool" -> "bool"
          [] t = "time" -> "int64"
          [] t = "duration" -> "time.Duration"]

\* the Go type the repository's test of raw data asserts for each tag after
\* json.Unmarshal (part_002:55-61: id.(float64), name.(string), admin.(bool),
\* joined.(float64)); a duration is a number
PrescribedJson ==
    [t \in KnownTypes |->
        CASE t = "int" -> "float64"
          [] t = "string" -> "string"
          [] t = "bool" -> "bool"
          [] t = "time" -> "float64"
          [] t = "duration" -> "float64"]

\* C26 (as claimed): for a field spec of recognized tags only, structured
\* data has exactly the names of the field spec, each with a value of the
\* kind its tag prescribes, and raw data unmarshals to a map with exactly
\* those names, each with a value of the kind its tag prescribes.
C26_ExactlyTheFields ==
    (format.Type \in {"structured", "raw"} /\ AllRecognized /\ data.kind # "none") =>
        /\ format.Type = "structured" =>
              /\ data.kind = "structured"
              /\ DOMAIN data.fields = DOMAIN format.Options
              /\ \A f \in DOMAIN format.Options :
                    data.fields[f] = Prescribed[format.Options[f]]
        /\ format.Type = "raw" =>
              /\ data.kind = "raw"
              /\ Len(data.json) = Cardinality(DOMAIN format.Options)
              /\ DOMAIN jsonUnmarshal(data.json) = DOMAIN format.Options
              /\ \A f \in DOMAIN format.Options :
                    jsonUnmarshal(data.json)[f] = PrescribedJson[format.Options[f]]

\* C27: Open does not read the position it is given: whatever position was
\* acknowledged, a Source started again has a produced-count of 0 and a new
\* record generator, and with a ceiling N it returns N records again.
C27_NoResume ==
    /\ [][restarts' # restarts =>
             /\ created' = 0
             /\ generated' = 0
             /\ returned' = 0
             /\ generateUntil' = ZeroTime
             /\ pc' = "idle"
             /\ config' = config]_vars
    /\ [](created >= generated /\ generated >= returned)
    /\ []((N >= 0 /\ restarts > 0) => returned <= N)
    /\ [][(N > 0 /\ restarts > 0 /\ pc = "idle" /\ ~ctxDone' /\ pulls' # pulls
              /\ created < N) => pc' = "burst_check"]_vars

\* C27 witness: with a ceiling of 1 the one record was returned and
\* acknowledged, the connector was started again with that position, and it
\* returned one record again.
C27_Witness ==
    /\ N = 1
    /\ restarts = 1
    /\ openedWith = 1
    /\ returned = 1
    /\ created = 1
    /\ pc = "idle"
    /\ ret = "record"
\* C28: with S > 0 the connector starts with the sleeping phase: no record is
\* returned before a burst sleep has run to its end, a burst check made after
\* the window end (the first one always is) sleeps S, one made at or before
\* it does not sleep, the first pull returns its record at least S plus the
\* read time after it was called, and a pull that did not sleep returns
\* after the read time alone.
C28_StartsSleeping ==
    /\ []((S > 0 /\ generateUntil = ZeroTime) => returned = 0)
    /\ [][(S > 0 /\ pc = "burst_check" /\ pc' # pc) =>
             /\ (generateUntil = ZeroTime \/ now > generateUntil) =>
                   (pc' = "burst_sleep" /\ slept' /\ deadline' = now + S)
             /\ now <= generateUntil => (pc' = "rate_check" /\ ~slept')]_vars
    /\ []((S > 0 /\ pulls = 1 /\ pc = "idle" /\ ret = "record") =>
             (slept /\ doneAt - start >= S + D))
    /\ []((S > 0 /\ pc = "idle" /\ ret = "record" /\ ~slept) =>
             (doneAt - start = D /\ burstStart <= generateUntil))

\* C28 witness: S = 2, G = 1, no read time: the first pull slept until 2, the
\* second returned at once inside the generate time, the third was called at
\* 4, after the window end 3, and slept until 6.
C28_Witness ==
    /\ S = 2
    /\ G = 1
    /\ D = 0
    /\ pulls = 3
    /\ returned = 3
    /\ pc = "idle"
    /\ ret = "record"
    /\ slept
    /\ start = 4
    /\ doneAt = 6
    /\ generateUntil = 7

\* C29 (as claimed): with S > 0 every record is returned inside a generating
\* window: not after the window end, and not before the window began.
C29_ReturnedInsideWindow ==
    (S > 0 /\ pc = "idle" /\ ret = "record") =>
        (doneAt <= generateUntil /\ doneAt >= generateUntil - G)
\* the errors Validate gives for readTime, rate and burst
TimingErrors ==
    confResult.errs \cap
        {<<"readTime and rate", "">>, <<"readTime", "">>, <<"rate", "">>,
         <<"burst.sleepTime", "">>, <<"burst.generateTime", "">>}

\* C30: Validate accepts a configuration only if readTime >= 0, rate >= 0,
\* burst.sleepTime >= 0, readTime and rate are not both positive, and
\* burst.generateTime > 0 when burst.sleepTime > 0; it has no complaint about
\* readTime, rate or burst exactly when all that holds, and with
\* burst.sleepTime = 0 none about generateTime.
C30_ValidateTiming ==
    confResult.checked =>
        /\ (TimingErrors = {}) <=>
              /\ conf.ReadTime >= 0
              /\ conf.Rate[1] >= 0
              /\ conf.SleepTime >= 0
              /\ ~(conf.ReadTime > 0 /\ conf.Rate[1] > 0)
              /\ conf.SleepTime > 0 => conf.GenerateTime > 0
        /\ confResult.errs = {} => TimingErrors = {}
        /\ conf.SleepTime = 0 => <<"burst.generateTime", "">> \notin confResult.errs

\* C30 witness: a configuration with burst.sleepTime = 0 and a negative
\* generateTime was accepted.
C30_Witness ==
    /\ confResult.checked
    /\ confResult.errs = {}
    /\ conf.SleepTime = 0
    /\ conf.GenerateTime < 0
    /\ conf.Rate[1] > 0
\* the collections a configuration sets up: the default one when the
\* top-level format type is set, and the named ones
DefaultCollection == [Operations |-> conf.Operations, Format |-> conf.Format]

Configured ==
    (IF conf.Format.Type # "" THEN {DefaultCollection} ELSE {})
    \cup {conf.Collections[n] : n \in DOMAIN conf.Collections}

\* a format FormatConfig.Validate has to refuse
BadFormat(f) ==
    \/ f.Type = "file" /\ f.Path = ""
    \/ f.Type \notin {"raw", "structured", "file"}
    \/ /\ f.Type \in {"raw", "structured"}
       /\ \E x \in DOMAIN f.Options :
             \/ Trim(x) = ""
             \/ Trim(f.Options[x]) = ""
             \/ ToLower(f.Options[x]) \notin KnownTypes

\* C31 (as claimed): Validate rejects a configuration with no collection; the default
\* unnamed collection is among the validated collections exactly when the
\* top-level format type is not empty; and a configuration is rejected when
\* one of its collections has the file format with no path, a format type
\* other than raw, structured and file, or a field with a blank name, a blank
\* type or an unknown type.
C31_CollectionsValidated ==
    confResult.checked =>
        LET collections == GetCollectionConfigs(conf)
        IN  /\ (conf.Format.Type = "" /\ DOMAIN conf.Collections = {})
                  => confResult.errs # {}
            /\ (conf.Format.Type # "") <=>
                  ("" \in DOMAIN collections /\ collections[""] = DefaultCollection)
            /\ (\E c \in Configured : BadFormat(c.Format)) => confResult.errs # {}
\* C32 (as claimed): a pull whose burst check is made at exactly the window
\* end is outside the generating window: it goes to sleep until a later time.
C32_WindowEndIsOutside ==
    [][(S > 0 /\ pc = "burst_check" /\ now = generateUntil /\ pc' # pc) =>
          (pc' = "burst_sleep" /\ slept' /\ deadline' > now)]_vars
\* the time the pull that is about to return its record spent in the
\* read-time step: its timer was set D before the deadline
RateDelay == now - (deadline - D)

\* C33 (as claimed): with a rate limit of one record per D the limiter holds
\* one token: a pull made when at least D has passed since the record before
\* it (or made first) is let through the rate-limit step without delay, the
\* pull issued the instant a record was returned waits D, and two records
\* are never returned less than D apart, however long the caller was idle.
C33_BurstOfOne ==
    [][(D > 0 /\ pc = "generate" /\ pc' = "idle" /\ ret' = "record") =>
          /\ (generated = 0 \/ start - readAt >= D) => RateDelay = 0
          /\ (generated >= 1 /\ start = readAt) => RateDelay = D
          /\ generated >= 1 => now - readAt >= D]_vars

\* C34: over more than one generator, a combinator call returns the record
\* of the selected generator i, i counted from 0, with only the position
\* changed: the new position is the decimal digits of i followed by the
\* position the generator gave; operation, metadata, key and payload are
\* the generator's.
C34_OnlyPositionRewritten ==
    [][(M > 1 /\ calls' = calls + 1) =>
          \E i \in 0..(M - 1) :
             /\ generators'[i].count = generators[i].count + 1
             /\ subRec'.position = Itoa(generators'[i].count)
             /\ subRec'.collection = generators[i].collection
             /\ rec'.position = Itoa(i) \o subRec'.position
             /\ [rec' EXCEPT !.position = subRec'.position] = subRec']_vars

\* C34 witness: over twelve generators the last one, at index 11, was picked
\* for the second time and its record came back with the position "112",
\* its key and its collection.
C34_Witness ==
    /\ M = 12
    /\ generators[11].count = 2
    /\ subRec.position = <<2>>
    /\ rec.position = <<1, 1, 2>>
    /\ rec.key = "w2"
    /\ rec.collection = <<"c", 11>>
\* the operations in a generator's list
Allowed(g) == {g.operations[k] : k \in DOMAIN g.operations}

\* C35: the operation of every record a collection's generator produces is
\* one of the operations of that collection's list, also after the
\* combinator has passed the record on; a generator whose list has a single
\* entry gives every record that operation.
C35_OperationFromList ==
    [][\A i \in DOMAIN generators :
          generators'[i] # generators[i] =>
             /\ subRec'.operation \in Allowed(generators[i])
             /\ rec'.operation = subRec'.operation
             /\ Len(generators[i].operations) = 1 =>
                   subRec'.operation = generators[i].operations[1]
             /\ generators'[i].operations = generators[i].operations]_vars

\* C35 witness: next to a generator with all four operations, the generator
\* of a collection whose list is just "create" has produced three records,
\* the last one a create.
C35_Witness ==
    /\ M = 2
    /\ generators[0].count >= 1
    /\ generators[1].operations = <<"create">>
    /\ generators[1].count = 3
    /\ rec.collection = generators[1].collection
    /\ rec.operation = "create"
\* C36: with a ceiling N > 0, in every reachable state the number of records
\* the pulls have returned is at most N, whatever mix of returning, cancelled
\* and failing pulls came before, and the count of produced records the
\* source keeps is at most N too.
C36_NeverAboveCeiling ==
    N > 0 =>
        /\ returned <= N
        /\ generated <= N
        /\ created <= N
        /\ returned <= created

\* C36 witness: with N = 2 one pull returned a record, another used up the
\* rest of the ceiling without returning one, and the third pull is blocked.
C36_Witness ==
    /\ N = 2
    /\ created = 2
    /\ returned = 1
    /\ pulls = 3
    /\ pc = "quota_block"
\* the sum of the counters of the generators 0..(m - 1)
RECURSIVE SumCounts(_)
SumCounts(m) == IF m = 0 THEN 0 ELSE generators[m - 1].count + SumCounts(m - 1)

\* C37: a combinator call adds exactly 1 to the counter of exactly one
\* generator, the selected one, and leaves the others alone; after n calls
\* the counters sum to n, and the positions each generator has given are
\* 1, 2, ... up to its counter.
C37_OneCounterPerCall ==
    /\ [][(M > 1 /\ calls' = calls + 1) =>
             \E i \in DOMAIN generators :
                /\ generators'[i].count = generators[i].count + 1
                /\ subRec'.position = Itoa(generators[i].count + 1)
                /\ \A j \in DOMAIN generators \ {i} : generators'[j] = generators[j]]_vars
    /\ [](M > 1 =>
             /\ SumCounts(M) = calls
             /\ \A i \in DOMAIN generators :
                   {p[2] : p \in {q \in emitted : q[1] = i}}
                      = {Itoa(i) \o Itoa(c) : c \in 1..generators[i].count})

\* C37 witness: over two generators, five calls went three to the first and
\* two to the second.
C37_Witness ==
    /\ M = 2
    /\ calls = 5
    /\ generators[0].count = 3
    /\ generators[1].count = 2
    /\ <<1, <<1, 2>>>> \in emitted
    /\ <<0, <<0, 3>>>> \in emitted
\* C38: a pull that is cancelled while it is blocked in the burst sleep
\* returns the cancellation error with the end of the generating window
\* unchanged; the window end moves only when a burst sleep runs to its timer,
\* so the next pull finds it as it was before the cancelled pull began.
C38_CancelKeepsWindow ==
    /\ [][(pc = "burst_sleep" /\ pc' = "idle") =>
             (ctxDone /\ ret' = "canceled" /\ generateUntil' = generateUntil)]_vars
    /\ [][generateUntil' # generateUntil =>
             (pc = "burst_sleep" /\ pc' = "rate_check" /\ ~ctxDone)]_vars

\* C38 witness: after a generating window had been opened and had passed, a
\* pull was cancelled in its burst sleep and the window end is still the
\* passed one.
C38_Witness ==
    /\ S > 0
    /\ pc = "idle"
    /\ ret = "canceled"
    /\ slept
    /\ generateUntil # ZeroTime
    /\ burstStart > generateUntil
    /\ doneAt < burstStart + S
====
